---- MODULE Spec2Model ----
(***************************************************************************)
(* A model of langgraph_supervisor's Langfuse tracer                       *)
(* (src/langgraph_supervisor/observability/langfuse.py) and of the         *)
(* supervisor graph the demos compile (src/example_usage.py,               *)
(* src/ea_demo.py).                                                        *)
(*                                                                         *)
(* Python values are modelled by what the code does with them:             *)
(*   - None is the string "None"; "" is the empty (falsy) string;          *)
(*   - a config dict is a record (hasCb: does it hold a "callbacks" key,   *)
(*     cbKind/cb: the value under that key, other: its remaining keys);    *)
(*   - an entry point (workflow.invoke / workflow.ainvoke) is a record     *)
(*     (base: the bound Pregel method, wraps: the closures stacked on it,  *)
(*     innermost first), each closure holding the handler it captured;     *)
(*   - dict objects have identity: "caller" is the dict the caller holds,  *)
(*     "fresh" the dict a wrapper creates by `config or {}`.               *)
(***************************************************************************)
EXTENDS Integers, Sequences, FiniteSets, TLC

\* ------------------------------------------------------------------ bounds
MaxTracers == 2
MaxWraps == 2
MaxCalls == 2
MaxHandoffs == 5

\* ------------------------------------------------------------- value sets
NoneV == "None"

Keys == {"LANGFUSE_PUBLIC_KEY", "LANGFUSE_SECRET_KEY", "LANGFUSE_HOST"}

\* What a constructor argument may be: omitted (None), "" or a value.
ArgVals == {NoneV, "", "arg"}

\* What the process environment may hold for a key before any construction.
EnvVals == {NoneV, "env"}

\* The outcomes of the three calls get_langfuse_callback makes: get_client(),
\* langfuse.auth_check() and CallbackHandler(). A call that is never reached
\* has no outcome ("-").
Backends ==
    {[client |-> c, auth |-> "-", handler |-> "-"] : c \in {"ConnectError", "Exception"}}
    \cup {[client |-> "ok", auth |-> a, handler |-> "-"] : a \in {"false", "Exception"}}
    \cup {[client |-> "ok", auth |-> "true", handler |-> h] : h \in {"ok", "Exception"}}

\* The CallbackHandler object the i-th constructed tracer would hold.
HandleOf(i) == "handle" \o ToString(i)

States == {"s1", "s2"}

\* What the original entry point does with a call: return or raise.
Oracles ==
    {[raised |-> FALSE, val |-> "result"], [raised |-> TRUE, val |-> "GraphError"]}

NoneConfig ==
    [isNone |-> TRUE, hasCb |-> FALSE, cbKind |-> "list", cb |-> <<>>, other |-> {}]

EmptyDict ==
    [isNone |-> FALSE, hasCb |-> FALSE, cbKind |-> "list", cb |-> <<>>, other |-> {}]

Dict(hasCb, cbKind, cb, other) ==
    [isNone |-> FALSE, hasCb |-> hasCb, cbKind |-> cbKind, cb |-> cb, other |-> other]

\* The config dicts a caller may build: with or without a "callbacks" key,
\* whose value RunnableConfig types as Optional[list | BaseCallbackManager].
CallerConfigs ==
    {Dict(FALSE, "list", <<>>, o) : o \in {{}, {"tags"}}}
    \cup {Dict(TRUE, "list", <<>>, {}),
          Dict(TRUE, "list", <<"cbA">>, {"tags"}),
          Dict(TRUE, "list", <<"cbA", "cbB">>, {})}
    \cup {Dict(TRUE, k, <<>>, {}) : k \in {"None", "manager"}}

VARIABLES
    env,        \* os.environ restricted to Keys
    env0,       \* os.environ as it was before any tracer was constructed
    tracers,    \* callback_handler of each tracer constructed so far
    workflows,  \* the workflow objects: [invoke, ainvoke] of each
    refs,       \* the caller's references: app, traced_app (0: unassigned)
    cfg,        \* the config dict object the caller holds
    cfg0,       \* the value of that dict when the caller built it
    calls,      \* calls made with that dict so far
    nTraced,    \* trace_workflow applications that wrapped (handle present)
    last,       \* the most recent operation and what it did
    node,       \* supervisor graph: the node in control
    directive,  \* supervisor graph: the supervisor's latest output
    messages,   \* supervisor graph: who appended to the conversation
    handoffs    \* supervisor graph: control transfers resolved so far

tvars == <<env, env0, tracers, workflows, refs, cfg, cfg0, calls, nTraced, last>>
gvars == <<node, directive, messages, handoffs>>
vars == <<tvars, gvars>>

\* ------------------------------------------------- get_langfuse_callback
Return(v) == [raised |-> FALSE, val |-> v]
Raise(e) == [raised |-> TRUE, val |-> e]

\* The classes `except Exception` catches (ConnectError derives from it).
IsException(e) == e \in {"ConnectError", "Exception", "TypeError", "GraphError"}

\* The body of the try block, lines 21-29.
get_langfuse_callback_try(b, h) ==
    IF b.client # "ok" THEN Raise(b.client)
    ELSE IF b.auth = "Exception" THEN Raise("Exception")
    ELSE IF b.auth = "true"
         THEN (IF b.handler = "ok" THEN Return(h) ELSE Raise(b.handler))
         ELSE Return(NoneV)

\* A bug the except clauses guard against: only ConnectError is caught.
get_langfuse_callback_uncaught(b, h) ==
    LET r == get_langfuse_callback_try(b, h)
    IN IF r.raised /\ r.val = "ConnectError" THEN Return(NoneV) ELSE r

get_langfuse_callback(b, h) ==
    LET r == get_langfuse_callback_try(b, h)
    IN IF r.raised /\ r.val = "ConnectError" THEN Return(NoneV)
       ELSE IF r.raised /\ IsException(r.val) THEN Return(NoneV)
       ELSE r

\* ------------------------------------------ LangfuseSupervisorTracer.__init__
\* Python truthiness of an Optional[str] argument.
Truthy(a) == a # NoneV /\ a # ""

ArgKey(args, k) ==
    IF k = "LANGFUSE_PUBLIC_KEY" THEN args.public_key
    ELSE IF k = "LANGFUSE_SECRET_KEY" THEN args.secret_key
    ELSE args.host

\* Lines 54-59: os.environ after the three conditional assignments.
SetEnviron(e, args) ==
    [k \in Keys |-> IF Truthy(ArgKey(args, k)) THEN ArgKey(args, k) ELSE e[k]]

\* __init__: the environment it leaves, what get_client() is initialised
\* from, the handler the tracer holds, and whether construction raised.
Tracer_init(e, args, b, h) ==
    LET e1 == SetEnviron(e, args)
        r == get_langfuse_callback(b, h)
    IN [env |-> e1,
        client |-> e1,
        raised |-> r.raised,
        callback_handler |-> IF r.raised THEN NoneV ELSE r.val]

\* ------------------------------------------------ traced_invoke / ainvoke
Deref(ref, m) ==
    IF ref = "caller" THEN m.caller
    ELSE IF ref = "fresh" THEN m.fresh
    ELSE NoneConfig

Store(ref, d, m) ==
    IF ref = "caller" THEN [m EXCEPT !.caller = d] ELSE [m EXCEPT !.fresh = d]

\* bool(config): None and the empty dict are falsy.
ConfigTruthy(ref, m) ==
    /\ ref # NoneV
    /\ LET d == Deref(ref, m) IN d.hasCb \/ d.other # {}

\* config.get("callbacks", [])
GetCallbacks(d) ==
    IF d.hasCb THEN [kind |-> d.cbKind, items |-> d.cb]
    ELSE [kind |-> "list", items |-> <<>>]

\* The bound Pregel.invoke / Pregel.ainvoke: records the call it receives and
\* returns or raises as the graph run decides.
original_invoke(base, state, config, m, oracle) ==
    [m EXCEPT !.delivered = Append(@, [entry |-> base, state |-> state,
                                       config |-> Deref(config, m)]),
              !.outcome = oracle]

RECURSIVE Call(_, _, _, _, _)

\* Lines 87-97.
traced_invoke(handler, original, state, config, m, oracle) ==
    LET \* config = config or {}
        c == IF ConfigTruthy(config, m) THEN config ELSE "fresh"
        m1 == IF c = config THEN m ELSE [m EXCEPT !.fresh = EmptyDict]
        d == Deref(c, m1)
        config_callbacks == GetCallbacks(d)
    IN \* [*config_callbacks, handler] unpacks an iterable only
       IF config_callbacks.kind # "list"
       THEN [m1 EXCEPT !.outcome = Raise("TypeError")]
       ELSE LET m2 == Store(c, [d EXCEPT !.hasCb = TRUE, !.cbKind = "list",
                                   !.cb = Append(config_callbacks.items, handler)], m1)
                result == Call(original, state, c, m2, oracle)
            IN result

\* A wrapper that puts the handler in front of the caller's callbacks.
traced_ainvoke_prepending(handler, original, state, config, m, oracle) ==
    LET c == IF ConfigTruthy(config, m) THEN config ELSE "fresh"
        m1 == IF c = config THEN m ELSE [m EXCEPT !.fresh = EmptyDict]
        d == Deref(c, m1)
        config_callbacks == GetCallbacks(d)
    IN IF config_callbacks.kind # "list"
       THEN [m1 EXCEPT !.outcome = Raise("TypeError")]
       ELSE Call(original, state, c,
                 Store(c, [d EXCEPT !.hasCb = TRUE, !.cbKind = "list",
                           !.cb = <<handler>> \o config_callbacks.items], m1),
                 oracle)

\* Lines 99-109.
traced_ainvoke(handler, original, state, config, m, oracle) ==
    LET c == IF ConfigTruthy(config, m) THEN config ELSE "fresh"
        m1 == IF c = config THEN m ELSE [m EXCEPT !.fresh = EmptyDict]
        d == Deref(c, m1)
        config_callbacks == GetCallbacks(d)
    IN IF config_callbacks.kind # "list"
       THEN [m1 EXCEPT !.outcome = Raise("TypeError")]
       ELSE LET m2 == Store(c, [d EXCEPT !.hasCb = TRUE, !.cbKind = "list",
                                   !.cb = Append(config_callbacks.items, handler)], m1)
                result == Call(original, state, c, m2, oracle)
            IN result

Front(s) == SubSeq(s, 1, Len(s) - 1)

\* Calling an entry point: the outermost closure runs, or the bound method.
Call(ep, state, config, m, oracle) ==
    IF ep.wraps = <<>> THEN original_invoke(ep.base, state, config, m, oracle)
    ELSE LET top == ep.wraps[Len(ep.wraps)]
             original == [ep EXCEPT !.wraps = Front(@)]
         IN IF top.fn = "traced_invoke"
            THEN traced_invoke(top.handler, original, state, config, m, oracle)
            ELSE traced_ainvoke(top.handler, original, state, config, m, oracle)

\* The memory a call starts from: the caller's dict, no fresh dict yet.
Memory(callerCfg) ==
    [caller |-> callerCfg, fresh |-> EmptyDict, delivered |-> <<>>,
     outcome |-> Return(NoneV)]

\* ------------------------------------------------------- trace_workflow
Wrap(ep, fn, handler) ==
    [ep EXCEPT !.wraps = Append(@, [fn |-> fn, handler |-> handler])]

\* A wrapper factory that wraps even without a handle.
trace_workflow_always(callback_handler, wfs, w) ==
    [wfs |-> [wfs EXCEPT ![w] = [invoke |-> Wrap(wfs[w].invoke, "traced_invoke", callback_handler),
                                 ainvoke |-> Wrap(wfs[w].ainvoke, "traced_ainvoke", callback_handler)]],
     ret |-> w]

\* A wrapper factory that leaves its argument alone and returns a new object.
trace_workflow_copying(callback_handler, wfs, w) ==
    IF callback_handler = NoneV THEN [wfs |-> wfs, ret |-> w]
    ELSE [wfs |-> Append(wfs, [invoke |-> Wrap(wfs[w].invoke, "traced_invoke", callback_handler),
                               ainvoke |-> Wrap(wfs[w].ainvoke, "traced_ainvoke", callback_handler)]),
          ret |-> Len(wfs) + 1]

\* A wrapper factory that re-registers every earlier closure with each wrap.
trace_workflow_doubling(callback_handler, wfs, w) ==
    IF callback_handler = NoneV THEN [wfs |-> wfs, ret |-> w]
    ELSE [wfs |-> [wfs EXCEPT ![w] =
                     [invoke |-> Wrap([@.invoke EXCEPT !.wraps = @ \o @],
                                      "traced_invoke", callback_handler),
                      ainvoke |-> Wrap([@.ainvoke EXCEPT !.wraps = @ \o @],
                                       "traced_ainvoke", callback_handler)]],
          ret |-> w]

\* Lines 70-115: the workflow objects afterwards and the object returned.
trace_workflow(callback_handler, wfs, w) ==
    IF callback_handler = NoneV THEN [wfs |-> wfs, ret |-> w]
    ELSE LET original_invoke_ == wfs[w].invoke
             original_ainvoke_ == wfs[w].ainvoke
         IN [wfs |-> [wfs EXCEPT ![w] =
                        [invoke |-> Wrap(original_invoke_, "traced_invoke", callback_handler),
                         ainvoke |-> Wrap(original_ainvoke_, "traced_ainvoke", callback_handler)]],
             ret |-> w]

\* ---------------------------------------------------------------- actions
Pristine == [invoke |-> [base |-> "invoke", wraps |-> <<>>],
             ainvoke |-> [base |-> "ainvoke", wraps |-> <<>>]]

\* The demos' environment: the keys are set, the host is not.
DemoEnv ==
    [k \in Keys |-> IF k = "LANGFUSE_HOST" THEN NoneV ELSE "env"]

\* src/example_usage.py lines 99-103: the arguments the demos construct with.
DemoArgs(e) ==
    [public_key |-> e["LANGFUSE_PUBLIC_KEY"],
     secret_key |-> e["LANGFUSE_SECRET_KEY"],
     host |-> IF e["LANGFUSE_HOST"] = NoneV THEN "http://localhost:3000"
              ELSE e["LANGFUSE_HOST"]]

TInit(e) ==
    /\ env0 = e
    /\ env = env0
    /\ tracers = <<>>
    /\ workflows = <<Pristine>>
    /\ refs = [app |-> 1, traced_app |-> 0]
    /\ cfg = EmptyDict
    /\ cfg0 = EmptyDict
    /\ calls = 0
    /\ nTraced = 0
    /\ last = [op |-> "init"]

\* tracer = LangfuseSupervisorTracer(public_key, secret_key, host)
Construct(args, b) ==
    /\ Len(tracers) < MaxTracers
    /\ LET r == Tracer_init(env, args, b, HandleOf(Len(tracers) + 1))
       IN /\ env' = r.env
          /\ tracers' = Append(tracers, r.callback_handler)
          /\ last' = [op |-> "construct", args |-> args, backend |-> b,
                      client |-> r.client, raised |-> r.raised,
                      callback_handler |-> r.callback_handler]
    /\ UNCHANGED <<env0, workflows, refs, cfg, cfg0, calls, nTraced>>

\* traced_app = tracer.trace_workflow(app)
TraceWorkflow(t) ==
    /\ nTraced < MaxWraps
    /\ LET r == trace_workflow(tracers[t], workflows, refs.app)
       IN /\ workflows' = r.wfs
          /\ refs' = [refs EXCEPT !.traced_app = r.ret]
          /\ nTraced' = IF tracers[t] = NoneV THEN nTraced ELSE nTraced + 1
          /\ last' = [op |-> "trace", callback_handler |-> tracers[t],
                      workflow |-> refs.app, before |-> workflows, ret |-> r.ret]
    /\ UNCHANGED <<env, env0, tracers, cfg, cfg0, calls>>

\* The caller builds a config dict to pass to later calls.
NewConfig(c) ==
    /\ c # cfg0 \/ calls > 0
    /\ cfg' = c
    /\ cfg0' = c
    /\ calls' = 0
    /\ last' = [op |-> "config"]
    /\ UNCHANGED <<env, env0, tracers, workflows, refs, nTraced>>

\* ref.invoke(state, config) or await ref.ainvoke(state, config), with the
\* caller's dict or with config omitted.
Invoke(w, kind, state, passed, oracle) ==
    /\ calls < MaxCalls
    /\ LET ep == IF kind = "invoke" THEN workflows[w].invoke ELSE workflows[w].ainvoke
           r == Call(ep, state, IF passed THEN "caller" ELSE NoneV, Memory(cfg), oracle)
       IN /\ cfg' = r.caller
          /\ last' = [op |-> "call", kind |-> kind, state |-> state,
                      passed |-> passed, oracle |-> oracle, ep |-> ep,
                      before |-> cfg, delivered |-> r.delivered,
                      outcome |-> r.outcome]
    /\ calls' = calls + 1
    /\ UNCHANGED <<env, env0, tracers, workflows, refs, cfg0, nTraced>>

AllArgs == [public_key : ArgVals, secret_key : ArgVals, host : ArgVals]

\* ------------------------------------------------------ supervisor graph
\* The workers the demo registers (create_react_agent(..., name=...)).
Workers == {"math_expert", "researcher"}

\* What the supervisor's reasoning loop can end a run of its node with: an
\* answer, or a call of the handoff tool transfer_to_<worker>.
NodeOutputs ==
    {[type |-> "answer", target |-> NoneV]}
    \cup {[type |-> "transfer", target |-> w] : w \in Workers}

EntryNode == "supervisor"

\* The graph executor resolving the supervisor's output to the next node.
Resolve(out) == IF out.type = "transfer" THEN out.target ELSE "END"

\* A graph whose workers finish the run themselves.
WorkerEdge_toEnd(w) == "END"

\* The edge a worker's completion follows.
WorkerEdge(w) == "supervisor"

GInit ==
    /\ node = "START"
    /\ directive = [type |-> "none", target |-> NoneV]
    /\ messages = <<>>
    /\ handoffs = 0

\* app.invoke(...) enters the graph.
GStart ==
    /\ node = "START"
    /\ node' = EntryNode
    /\ UNCHANGED <<directive, messages, handoffs>>

\* The supervisor node runs and answers or hands off.
SupervisorRuns(out) ==
    /\ node = "supervisor"
    /\ out.type = "transfer" => handoffs < MaxHandoffs
    /\ directive' = out
    /\ node' = Resolve(out)
    /\ messages' = Append(messages, "supervisor")
    /\ handoffs' = IF out.type = "transfer" THEN handoffs + 1 ELSE handoffs

\* A worker node runs to completion.
WorkerRuns ==
    /\ node \in Workers
    /\ messages' = Append(messages, node)
    /\ node' = WorkerEdge(node)
    /\ UNCHANGED <<directive, handoffs>>

Init == TInit(DemoEnv) /\ GInit

Next ==
    \/ \E b \in Backends : Construct(DemoArgs(env), b) /\ UNCHANGED gvars
    \/ \E t \in 1..Len(tracers) : TraceWorkflow(t) /\ UNCHANGED gvars
    \/ \E c \in CallerConfigs : NewConfig(c) /\ UNCHANGED gvars
    \/ \E w \in {refs.app, refs.traced_app} \ {0}, kind \in {"invoke", "ainvoke"},
          state \in States, passed \in BOOLEAN, oracle \in Oracles :
          Invoke(w, kind, state, passed, oracle) /\ UNCHANGED gvars

Spec == Init /\ [][Next]_vars

\* Construction alone, over every environment and every mix of arguments.
CtorInit == (\E e \in [Keys -> EnvVals] : TInit(e)) /\ GInit

CtorNext == \E args \in AllArgs, b \in Backends : Construct(args, b) /\ UNCHANGED gvars

CtorSpec == CtorInit /\ [][CtorNext]_vars

\* One run of the compiled supervisor workflow.
GraphNext ==
    \/ GStart /\ UNCHANGED tvars
    \/ \E out \in NodeOutputs : SupervisorRuns(out) /\ UNCHANGED tvars
    \/ WorkerRuns /\ UNCHANGED tvars

GraphSpec == Init /\ [][GraphNext]_vars

\* ----------------------------------------------------------------- claims
AllOk == [client |-> "ok", auth |-> "true", handler |-> "ok"]

\* The config the caller handed to the call recorded in `last`.
CallerConfig == IF last.passed THEN last.before ELSE NoneConfig

\* The handlers an entry point's closures append, in the order they run
\* (the outermost closure runs first).
HandlesAppended(ep) ==
    [i \in 1..Len(ep.wraps) |-> ep.wraps[Len(ep.wraps) - i + 1].handler]

EntryPoint(wf, kind) == IF kind = "invoke" THEN wf.invoke ELSE wf.ainvoke

\* C1: constructing a tracer never raises, whatever get_client(),
\* auth_check() and CallbackHandler() do; the tracer holds a handle exactly
\* when all three succeed, and holds None otherwise.
C1_ConstructionNeverRaises ==
    last.op = "construct" =>
        /\ ~last.raised
        /\ tracers[Len(tracers)] = last.callback_handler
        /\ (last.callback_handler # NoneV) <=> (last.backend = AllOk)

C1_Witness ==
    /\ last.op = "construct"
    /\ Len(tracers) = 2
    /\ tracers[1] # NoneV
    /\ tracers[2] = NoneV
    /\ last.backend.handler = "Exception"

\* C2: a tracer without a handle returns the workflow it was given and leaves
\* invoke and ainvoke as they were, so every call through the returned
\* workflow does what the same call did before; on a workflow nobody wrapped
\* the original entry point receives the caller's state and config as passed
\* and its outcome is the call's outcome.
C2_PassThrough ==
    (last.op = "trace" /\ last.callback_handler = NoneV) =>
        /\ last.ret = last.workflow
        /\ workflows = last.before
        /\ \A kind \in {"invoke", "ainvoke"}, state \in States,
              passed \in BOOLEAN, oracle \in Oracles :
              LET config == IF passed THEN "caller" ELSE NoneV
                  r == Call(EntryPoint(workflows[last.ret], kind), state,
                            config, Memory(cfg), oracle)
                  u == Call(EntryPoint(last.before[last.workflow], kind), state,
                            config, Memory(cfg), oracle)
              IN /\ r = u
                 /\ nTraced = 0 =>
                      /\ r.delivered =
                           <<[entry |-> kind, state |-> state,
                              config |-> IF passed THEN cfg ELSE NoneConfig]>>
                      /\ r.outcome = oracle
                      /\ r.caller = cfg

C2_Witness ==
    /\ last.op = "trace"
    /\ last.callback_handler = NoneV
    /\ nTraced = 0
    /\ cfg.cb = <<"cbA", "cbB">>

\* C3: with a handle, every traced call, whatever config the caller passes
\* (omitted, empty, without "callbacks", or with any legal "callbacks"
\* value), reaches the original entry point with the caller's callbacks
\* followed by the tracer's handle and the caller's other entries unchanged.
C3_AppendsHandle ==
    (last.op = "call" /\ last.ep.wraps # <<>>) =>
        /\ Len(last.delivered) = 1
        /\ last.delivered[1].config.hasCb
        /\ last.delivered[1].config.cbKind = "list"
        /\ last.delivered[1].config.cb = CallerConfig.cb \o HandlesAppended(last.ep)
        /\ last.delivered[1].config.other = CallerConfig.other

\* C4: over calls that reuse one caller config dict, every call delivers the
\* caller's original callbacks followed by one handle per wrap, and the
\* caller's dict is after a call what it was before it.
C4_TransparentOnReuse ==
    (last.op = "call" /\ last.passed /\ cfg0.cbKind = "list") =>
        /\ cfg = last.before
        /\ Len(last.delivered) = 1
        /\ last.delivered[1].config.cb = cfg0.cb \o HandlesAppended(last.ep)

\* C5: after k >= 1 applications of trace_workflow (handle present each
\* time) to one workflow, a call whose caller callbacks are a list of length
\* n reaches the innermost original entry point exactly once, with a
\* callback list of length n + k.
C5_OncePerWrap ==
    (last.op = "call" /\ nTraced >= 1 /\ CallerConfig.cbKind = "list") =>
        /\ Len(last.delivered) = 1
        /\ last.delivered[1].entry = last.kind
        /\ Len(last.delivered[1].config.cb) = Len(CallerConfig.cb) + nTraced

C5_Witness ==
    /\ last.op = "call"
    /\ nTraced = 2
    /\ last.passed
    /\ Len(last.before.cb) = 2
    /\ Len(last.delivered) = 1

\* C6: a traced call calls the original entry point exactly once with the
\* caller's state, and its outcome (the value returned or the error raised)
\* is the original's.
C6_ForwardsOnce ==
    (last.op = "call" /\ last.ep.wraps # <<>>) =>
        /\ Len(last.delivered) = 1
        /\ last.delivered[1].state = last.state
        /\ last.outcome = last.oracle

\* C7 as stated: with a handle, trace_workflow returns a new object and the
\* workflow passed to it keeps its original invoke and ainvoke.
C7_NewObject ==
    (last.op = "trace" /\ last.callback_handler # NoneV) =>
        /\ last.ret # last.workflow
        /\ workflows[last.workflow] = last.before[last.workflow]

\* C7 as amended: with a handle, trace_workflow returns the object it was
\* given, creates no other, and replaces that object's invoke and ainvoke by
\* closures over the previous ones; a call through the caller's original
\* reference then runs the traced entry point, and whatever it delegates
\* carries the tracer's handle among its callbacks.
C7_WrapsInPlace ==
    (last.op = "trace" /\ last.callback_handler # NoneV) =>
        /\ last.ret = last.workflow
        /\ Len(workflows) = Len(last.before)
        /\ workflows[last.workflow].invoke =
             Wrap(last.before[last.workflow].invoke, "traced_invoke",
                  last.callback_handler)
        /\ workflows[last.workflow].ainvoke =
             Wrap(last.before[last.workflow].ainvoke, "traced_ainvoke",
                  last.callback_handler)
        /\ \A kind \in {"invoke", "ainvoke"}, state \in States,
              passed \in BOOLEAN, oracle \in Oracles :
              LET r == Call(EntryPoint(workflows[refs.app], kind), state,
                            IF passed THEN "caller" ELSE NoneV, Memory(cfg), oracle)
              IN /\ Len(r.delivered) <= 1
                 /\ ~passed => Len(r.delivered) = 1
                 /\ \A j \in 1..Len(r.delivered) :
                      last.callback_handler
                        \in {r.delivered[j].config.cb[i] :
                               i \in 1..Len(r.delivered[j].config.cb)}

C7_Witness ==
    /\ last.op = "trace"
    /\ last.callback_handler # NoneV
    /\ nTraced = 2
    /\ refs.traced_app = refs.app

\* C8: each of the three settings the client is initialised with is the
\* constructor argument when one is passed (the empty string included), and
\* otherwise what the environment held before any tracer was constructed.
C8_ExplicitElseOriginalEnv ==
    last.op = "construct" =>
        \A k \in Keys :
            last.client[k] = IF ArgKey(last.args, k) # NoneV
                             THEN ArgKey(last.args, k)
                             ELSE env0[k]

\* C9: a run starts at the supervisor; a worker gets control only from the
\* supervisor, by a handoff directive naming it; a worker's completion gives
\* control to the supervisor; the run ends only from the supervisor, on an
\* answer without handoff.
C9_SupervisorRouting ==
    [][/\ node = "START" => node' = "supervisor"
       /\ node' \in Workers =>
            /\ node = "supervisor"
            /\ directive' = [type |-> "transfer", target |-> node']
       /\ node \in Workers => node' = "supervisor"
       /\ node' = "END" => (node = "supervisor" /\ directive'.type = "answer")]_gvars

C9_Witness ==
    /\ node = "END"
    /\ \A w \in Workers : \E i \in 1..Len(messages) : messages[i] = w
    /\ messages[Len(messages)] = "supervisor"

\* C10: for the same state and caller config, traced invoke and traced
\* ainvoke deliver the same state and the same augmented config to their
\* original entry points, leave the caller's dict the same, and end the same
\* way, each with its own original's outcome.
C10_EntryPointsEquivalent ==
    \A w \in 1..Len(workflows), state \in States, passed \in BOOLEAN,
       oracle \in Oracles :
        LET config == IF passed THEN "caller" ELSE NoneV
            a == Call(workflows[w].invoke, state, config, Memory(cfg), oracle)
            b == Call(workflows[w].ainvoke, state, config, Memory(cfg), oracle)
        IN /\ a.caller = b.caller
           /\ a.outcome = b.outcome
           /\ Len(a.delivered) = Len(b.delivered)
           /\ \A i \in 1..Len(a.delivered) :
                /\ a.delivered[i].state = b.delivered[i].state
                /\ a.delivered[i].config = b.delivered[i].config
                /\ a.delivered[i].entry = "invoke"
                /\ b.delivered[i].entry = "ainvoke"
                /\ a.outcome = oracle

C10_Witness ==
    /\ last.op = "call"
    /\ last.kind = "ainvoke"
    /\ Len(last.ep.wraps) = 2
    /\ last.passed
    /\ last.before.cb = <<"cbA", "cbB">>
    /\ Len(last.delivered) = 1

====
